---- MODULE Spec2Model ----
(***************************************************************************)
(* The employee store of ecs-backend-service: the request handlers of      *)
(* api/routes.py over the employees table of db/models.py.  Every handler  *)
(* that reads and then writes is two steps (its queries, then its write),  *)
(* so that the writes of other workers can fall between them.  The table   *)
(* is the SQLite table of core/config.py: the UNIQUE index on email, the   *)
(* NOT NULL columns, rowid allocation and the single writer lock are the   *)
(* engine's.                                                               *)
(***************************************************************************)
EXTENDS Integers, Sequences, FiniteSets, TLC

VARIABLES
    employees,  \* the committed rows of table employees: id -> row
    now,        \* the database clock, func.now()
    pc,         \* per worker: where its current request stands
    req,        \* per worker: the request being served
    loaded,     \* per worker: db_employee as the handler's query loaded it
    idx,        \* per worker: bulk loop position (1-based)
    created,    \* per worker: bulk `created` list
    errors,     \* per worker: bulk `errors` list
    pending,    \* per worker: rows flushed in the open transaction
    active,     \* per worker: the session's transaction is usable
    resp,       \* per worker: the response of its last finished request
    usedIds     \* history: every id ever handed out by an INSERT

vars == <<employees, now, pc, req, loaded, idx, created, errors, pending,
          active, resp, usedIds>>

\* ---------------------------------------------------------------- bounds
MaxId == 2
MaxClock == 1
MaxBatch == 2

\* ---------------------------------------------------------------- values
\* A nullable value is <<>> (None / NULL) or <<v>>.
Null == <<>>
Some(v) == <<v>>

\* Python truthiness of an Optional[str]: None and "" are falsy.
Truthy(v) == v # Null /\ v # Some("")

Workers == {"w1", "w2"}

NoRows == [i \in {} |-> Null]

\* The payload fields of EmployeeBase / EmployeeUpdate.
Fields == {"name", "role", "salary", "email", "department",
           "performance_rating", "skills"}

\* The NOT NULL columns among them.
NotNullFields == {"name", "role", "salary"}

NoReq == [op |-> "none", id |-> 0, body |-> Null, batch |-> <<>>]
NoResp == [status |-> 0, kind |-> "none", body |-> Null]

Response(status, kind, body) == [status |-> status, kind |-> kind, body |-> body]

\* ------------------------------------------------------------ validation
StrOk(v) == v # Some("")
SalaryOk(v) == v[1] >= 0
RatingOk(v) == v[1] >= 0 /\ v[1] <= 5

\* EmployeeCreate: name, role, salary required; the rest optional.
ValidCreate(b) ==
    /\ b.name # Null /\ StrOk(b.name)
    /\ b.role # Null /\ StrOk(b.role)
    /\ b.salary # Null /\ SalaryOk(b.salary)
    /\ b.email # Some("")
    /\ b.performance_rating = Null \/ RatingOk(b.performance_rating)

\* EmployeeUpdate: every field optional; a supplied non-null value is
\* held to the same constraints.
ValidUpdate(b) ==
    /\ "name" \in DOMAIN b => StrOk(b["name"])
    /\ "role" \in DOMAIN b => StrOk(b["role"])
    /\ ("salary" \in DOMAIN b /\ b["salary"] # Null) => SalaryOk(b["salary"])
    /\ "email" \in DOMAIN b => b["email"] # Some("")
    /\ ("performance_rating" \in DOMAIN b /\ b["performance_rating"] # Null)
          => RatingOk(b["performance_rating"])

\* ------------------------------------------------------------- the table
Max(S) == CHOOSE m \in S : \A x \in S : x <= m

\* INTEGER PRIMARY KEY without AUTOINCREMENT: one more than the largest
\* rowid in the table, 1 for an empty table.
NextId(rows) == IF DOMAIN rows = {} THEN 1 ELSE Max(DOMAIN rows) + 1

\* db.query(Employee).filter(Employee.email == e).first() is not None
EmailRegistered(rows, e) == \E i \in DOMAIN rows : rows[i].email = e

\* (mutant) a table created without the UNIQUE index
UniqueViolationOff(rows, e, self) == FALSE

\* UNIQUE index on employees.email: another row holds the same non-null
\* email (NULLs never collide).
UniqueViolation(rows, e, self) ==
    e # Null /\ \E i \in DOMAIN rows \ {self} : rows[i].email = e

\* Employee(**body) as INSERTed: a None performance_rating takes the column
\* default 0.0, created_at the server default, updated_at stays NULL.
NewRow(id, b, t) ==
    [id |-> id, name |-> b.name, role |-> b.role, salary |-> b.salary,
     email |-> b.email, department |-> b.department,
     performance_rating |->
        IF b.performance_rating = Null THEN Some(0) ELSE b.performance_rating,
     skills |-> b.skills, created_at |-> t, updated_at |-> Null]

InsertRow(rows, id, b, t) == rows @@ (id :> NewRow(id, b, t))

\* (mutant) the DELETE is never issued
DeleteRowKept(rows, id) == rows

DeleteRow(rows, id) == [i \in DOMAIN rows \ {id} |-> rows[i]]

\* (mutant) a session that does not read its own flushed rows
VisibleCommitted(w) == employees

\* The rows a worker's session reads: the committed table and what its own
\* open transaction has flushed.
Visible(w) == employees @@ pending[w]

\* SQLite has one writer: while another worker's transaction holds flushed
\* rows, a write fails ("database is locked").
Locked(w) == \E q \in Workers \ {w} : pending[q] # NoRows

\* ------------------------------------------------------------- responses
Reply(w, r) == resp' = [resp EXCEPT ![w] = r]

HttpError(status, detail) == Response(status, "error", [detail |-> detail])

\* An exception no handler catches: 500 Internal Server Error.
ServerError(exc) == Response(500, "error", [detail |-> exc])

Serving(w, op, id, body, batch) ==
    req' = [req EXCEPT ![w] = [op |-> op, id |-> id, body |-> body, batch |-> batch]]

\* ------------------------------------------------------------------- get
\* get_employee
GetResponse(rows, id) ==
    IF id \in DOMAIN rows
      THEN Response(200, "employee", rows[id])
      ELSE HttpError(404, "Employee not found")

get_employee(w, id) ==
    /\ pc[w] = "idle"
    /\ Serving(w, "get", id, Null, <<>>)
    /\ Reply(w, GetResponse(employees, id))
    /\ UNCHANGED <<employees, now, pc, loaded, idx, created, errors, pending,
                   active, usedIds>>

\* ---------------------------------------------------------------- create
\* (mutant) the handler without its email check
CreateRejectedNever(rows, b) == FALSE

\* create_employee up to its INSERT: request validation, then the check
\* "if employee.email: existing = ...first(); if existing: raise 400".
CreateRejected(rows, b) == Truthy(b.email) /\ EmailRegistered(rows, b.email)

create_employee_check(w, b) ==
    /\ pc[w] = "idle"
    /\ Serving(w, "create", 0, b, <<>>)
    /\ IF ~ValidCreate(b)
         THEN Reply(w, HttpError(422, "validation")) /\ UNCHANGED pc
       ELSE IF CreateRejected(employees, b)
         THEN Reply(w, HttpError(400, "Email already registered")) /\ UNCHANGED pc
       ELSE /\ Reply(w, NoResp)
            /\ pc' = [pc EXCEPT ![w] = "create_write"]
    /\ UNCHANGED <<employees, now, loaded, idx, created, errors, pending,
                   active, usedIds>>

\* db.add(db_employee); db.commit(); db.refresh(db_employee)
create_employee_commit(w) ==
    /\ pc[w] = "create_write"
    /\ pc' = [pc EXCEPT ![w] = "idle"]
    /\ LET b == req[w].body
           id == NextId(employees)
       IN  IF Locked(w)
             THEN Reply(w, ServerError("OperationalError"))
                  /\ UNCHANGED <<employees, usedIds>>
           ELSE IF UniqueViolation(employees, b.email, 0)
             THEN Reply(w, ServerError("IntegrityError"))
                  /\ UNCHANGED <<employees, usedIds>>
           ELSE /\ id <= MaxId
                /\ employees' = InsertRow(employees, id, b, now)
                /\ usedIds' = usedIds \cup {id}
                /\ Reply(w, Response(201, "employee", employees'[id]))
    /\ UNCHANGED <<now, req, loaded, idx, created, errors, pending, active>>

\* ---------------------------------------------------------------- update
\* (mutant) the check without "!= db_employee.email"
UpdateRejectedOwn(rows, row, b) ==
    /\ "email" \in DOMAIN b
    /\ Truthy(b["email"])
    /\ EmailRegistered(rows, b["email"])

\* "if employee_update.email and employee_update.email != db_employee.email:
\*      existing = ...first(); if existing: raise 400"
UpdateRejected(rows, row, b) ==
    /\ "email" \in DOMAIN b
    /\ Truthy(b["email"])
    /\ b["email"] # row.email
    /\ EmailRegistered(rows, b["email"])

\* update_employee up to its commit: validation, lookup, email check.
update_employee_check(w, id, b) ==
    /\ pc[w] = "idle"
    /\ Serving(w, "update", id, b, <<>>)
    /\ IF ~ValidUpdate(b)
         THEN Reply(w, HttpError(422, "validation")) /\ UNCHANGED <<pc, loaded>>
       ELSE IF id \notin DOMAIN employees
         THEN Reply(w, HttpError(404, "Employee not found")) /\ UNCHANGED <<pc, loaded>>
       ELSE IF UpdateRejected(employees, employees[id], b)
         THEN Reply(w, HttpError(400, "Email already registered"))
              /\ UNCHANGED <<pc, loaded>>
       ELSE /\ Reply(w, NoResp)
            /\ loaded' = [loaded EXCEPT ![w] = employees[id]]
            /\ pc' = [pc EXCEPT ![w] = "update_write"]
    /\ UNCHANGED <<employees, now, idx, created, errors, pending, active, usedIds>>

\* model_dump(exclude_unset=True) + setattr: the attributes whose new value
\* differs from the loaded one are the columns of the UPDATE statement.
ChangedFields(b, row) == {f \in DOMAIN b : b[f] # row[f]}

\* (mutant) a column without onupdate
UpdatedAtKept(row, t) == row.updated_at

\* UPDATE employees SET <changed columns>, updated_at = now() WHERE id = ?
UpdatedAt(row, t) == Some(t)

\* (mutant) model_dump() without exclude_unset: absent fields written as None
ApplyUpdateUnset(row, b, changed, t) ==
    [f \in DOMAIN row |->
        IF f \in DOMAIN b THEN b[f]
        ELSE IF f \in Fields THEN Null
        ELSE IF f = "updated_at" THEN Some(t)
        ELSE row[f]]

ApplyUpdate(row, b, changed, t) ==
    [f \in DOMAIN row |->
        IF f \in changed THEN b[f]
        ELSE IF f = "updated_at" THEN UpdatedAt(row, t)
        ELSE row[f]]

\* db.commit(); db.refresh(db_employee)
update_employee_commit(w) ==
    /\ pc[w] = "update_write"
    /\ pc' = [pc EXCEPT ![w] = "idle"]
    /\ LET b == req[w].body
           id == loaded[w].id
           changed == ChangedFields(b, loaded[w])
       IN  IF changed = {}
             THEN \* nothing to flush: no UPDATE is emitted; refresh re-reads
                  /\ UNCHANGED employees
                  /\ IF id \in DOMAIN employees
                       THEN Reply(w, Response(200, "employee", employees[id]))
                       ELSE Reply(w, ServerError("InvalidRequestError"))
           ELSE IF Locked(w)
             THEN Reply(w, ServerError("OperationalError")) /\ UNCHANGED employees
           ELSE IF id \notin DOMAIN employees
             THEN Reply(w, ServerError("StaleDataError")) /\ UNCHANGED employees
           ELSE IF \/ \E f \in changed \cap NotNullFields : b[f] = Null
                   \/ ("email" \in changed /\ UniqueViolation(employees, b["email"], id))
             THEN Reply(w, ServerError("IntegrityError")) /\ UNCHANGED employees
           ELSE /\ employees' = [employees EXCEPT
                                   ![id] = ApplyUpdate(@, b, changed, now)]
                /\ Reply(w, Response(200, "employee", employees'[id]))
    /\ loaded' = [loaded EXCEPT ![w] = Null]
    /\ UNCHANGED <<now, req, idx, created, errors, pending, active, usedIds>>

\* ---------------------------------------------------------------- delete
\* delete_employee up to db.delete
delete_employee_check(w, id) ==
    /\ pc[w] = "idle"
    /\ Serving(w, "delete", id, Null, <<>>)
    /\ IF id \notin DOMAIN employees
         THEN Reply(w, HttpError(404, "Employee not found")) /\ UNCHANGED pc
         ELSE Reply(w, NoResp) /\ pc' = [pc EXCEPT ![w] = "delete_write"]
    /\ UNCHANGED <<employees, now, loaded, idx, created, errors, pending,
                   active, usedIds>>

\* db.delete(db_employee); db.commit(): DELETE ... WHERE id = ?  (a row
\* already gone is a warning, not an error)
delete_employee_commit(w) ==
    /\ pc[w] = "delete_write"
    /\ pc' = [pc EXCEPT ![w] = "idle"]
    /\ IF Locked(w)
         THEN Reply(w, ServerError("OperationalError")) /\ UNCHANGED employees
         ELSE /\ employees' = DeleteRow(employees, req[w].id)
              /\ Reply(w, Response(200, "deleted", [id |-> req[w].id]))
    /\ UNCHANGED <<now, req, loaded, idx, created, errors, pending, active, usedIds>>

\* ------------------------------------------------------------------ bulk
BulkState(w, i, c, e, p, a) ==
    /\ idx' = [idx EXCEPT ![w] = i]
    /\ created' = [created EXCEPT ![w] = c]
    /\ errors' = [errors EXCEPT ![w] = e]
    /\ pending' = [pending EXCEPT ![w] = p]
    /\ active' = [active EXCEPT ![w] = a]

\* errors.append({"index": idx, "email": ..., "error": "Email already exists"})
DuplicateError(i, e) == [index |-> i - 1, email |-> e, error |-> "Email already exists"]

\* except Exception as e: errors.append({"index": idx, "error": str(e)})
ItemError(i, exc) == [index |-> i - 1, error |-> exc]

\* The loop goes on to the next entry, or leaves for db.commit().
AfterItem(w, i, batch) ==
    pc' = [pc EXCEPT ![w] = IF i >= Len(batch) THEN "bulk_commit" ELSE "bulk_check"]

\* A batch is validated whole, as List[EmployeeCreate], before the handler runs.
ValidBatch(batch) == \A i \in 1..Len(batch) : ValidCreate(batch[i])

\* bulk_create_employees: the request arrives; created = [], errors = []
bulk_create_employees(w, batch) ==
    /\ pc[w] = "idle"
    /\ Serving(w, "bulk", 0, Null, batch)
    /\ IF ~ValidBatch(batch)
         THEN Reply(w, HttpError(422, "validation"))
              /\ UNCHANGED <<pc, idx, created, errors, pending, active>>
         ELSE /\ Reply(w, NoResp)
              /\ BulkState(w, 1, <<>>, <<>>, NoRows, TRUE)
              /\ AfterItem(w, 0, batch)
    /\ UNCHANGED <<employees, now, loaded, usedIds>>

\* The entry's email check.  A session whose flush has failed raises
\* PendingRollbackError on every later statement.
bulk_create_check(w) ==
    /\ pc[w] = "bulk_check"
    /\ LET i == idx[w]
           b == req[w].batch[i]
       IN  IF ~Truthy(b.email)
             THEN pc' = [pc EXCEPT ![w] = "bulk_flush"]
                  /\ UNCHANGED <<idx, created, errors, pending, active>>
           ELSE IF ~active[w]
             THEN /\ BulkState(w, i + 1, created[w],
                         Append(errors[w], ItemError(i, "PendingRollbackError")),
                         pending[w], FALSE)
                  /\ AfterItem(w, i, req[w].batch)
           ELSE IF EmailRegistered(Visible(w), b.email)
             THEN /\ BulkState(w, i + 1, created[w],
                         Append(errors[w], DuplicateError(i, b.email)),
                         pending[w], TRUE)
                  /\ AfterItem(w, i, req[w].batch)
           ELSE pc' = [pc EXCEPT ![w] = "bulk_flush"]
                /\ UNCHANGED <<idx, created, errors, pending, active>>
    /\ UNCHANGED <<employees, now, req, loaded, resp, usedIds>>

\* db.add(db_employee); db.flush(); created.append(db_employee.id)
\* A flush that fails rolls the whole transaction back and leaves the session
\* unusable until rollback(), which the handler never calls.
bulk_create_flush(w) ==
    /\ pc[w] = "bulk_flush"
    /\ LET i == idx[w]
           b == req[w].batch[i]
           id == NextId(Visible(w))
       IN  IF ~active[w]
             THEN /\ BulkState(w, i + 1, created[w],
                         Append(errors[w], ItemError(i, "PendingRollbackError")),
                         pending[w], FALSE)
                  /\ UNCHANGED usedIds
           ELSE IF Locked(w)
             THEN /\ BulkState(w, i + 1, created[w],
                         Append(errors[w], ItemError(i, "OperationalError")),
                         NoRows, FALSE)
                  /\ UNCHANGED usedIds
           ELSE IF UniqueViolation(Visible(w), b.email, 0)
             THEN /\ BulkState(w, i + 1, created[w],
                         Append(errors[w], ItemError(i, "IntegrityError")),
                         NoRows, FALSE)
                  /\ UNCHANGED usedIds
           ELSE /\ id <= MaxId
                /\ BulkState(w, i + 1, Append(created[w], id), errors[w],
                         InsertRow(pending[w], id, b, now), TRUE)
                /\ usedIds' = usedIds \cup {id}
    /\ AfterItem(w, idx[w], req[w].batch)
    /\ UNCHANGED <<employees, now, req, loaded, resp>>

\* {"created": len(created), "employee_ids": created, "errors": errors}
BulkResult(c, e) == [created |-> Len(c), employee_ids |-> c, errors |-> e]

\* db.commit(); return {...}
bulk_create_commit(w) ==
    /\ pc[w] = "bulk_commit"
    /\ pc' = [pc EXCEPT ![w] = "idle"]
    /\ IF ~active[w]
         THEN Reply(w, ServerError("PendingRollbackError")) /\ UNCHANGED employees
         ELSE /\ employees' = employees @@ pending[w]
              /\ Reply(w, Response(200, "bulk", BulkResult(created[w], errors[w])))
    /\ BulkState(w, 0, <<>>, <<>>, NoRows, TRUE)
    /\ UNCHANGED <<now, req, loaded, usedIds>>

\* ----------------------------------------------------------------- stats
\* GROUP BY employees.department: the distinct department values, NULL one
\* of them, in the engine's order (NULL first, then text).
Departments == <<Null, Some(""), Some("eng")>>

InGroup(rows, d) == {i \in DOMAIN rows : rows[i].department = d}

\* (mutant) a query that drops the rows without a department
DepartmentGroupsNotNull(rows) ==
    SelectSeq(Departments, LAMBDA d : d # Null /\ InGroup(rows, d) # {})

DepartmentGroups(rows) ==
    SelectSeq(Departments, LAMBDA d : InGroup(rows, d) # {})

\* {"name": dept or "Unassigned", "count": count}
DepartmentName(d) == IF Truthy(d) THEN d[1] ELSE "Unassigned"

DepartmentEntry(rows, d) ==
    [name |-> DepartmentName(d), count |-> Cardinality(InGroup(rows, d))]

\* get_employee_stats: total_employees and the departments list
StatsBody(rows) ==
    [total_employees |-> Cardinality(DOMAIN rows),
     departments |-> [k \in 1..Len(DepartmentGroups(rows)) |->
                         DepartmentEntry(rows, DepartmentGroups(rows)[k])]]

get_employee_stats(w) ==
    /\ pc[w] = "idle"
    /\ Serving(w, "stats", 0, Null, <<>>)
    /\ Reply(w, Response(200, "stats", StatsBody(employees)))
    /\ UNCHANGED <<employees, now, pc, loaded, idx, created, errors, pending,
                   active, usedIds>>

\* ----------------------------------------------------------------- clock
Tick ==
    /\ now < MaxClock
    /\ now' = now + 1
    /\ UNCHANGED <<employees, pc, req, loaded, idx, created, errors, pending,
                   active, resp, usedIds>>

\* ---------------------------------------------------------------- inputs
Body(name, salary, email, department) ==
    [name |-> Some(name), role |-> Some("x"), salary |-> Some(salary),
     email |-> email, department |-> department,
     performance_rating |-> Some(0), skills |-> Null]

EmailA == Some("a@x.com")
EmailB == Some("b@x.com")

\* A body that fails validation (salary < 0).
BadBody == Body("A", 0 - 1, Null, Null)

Ids == 1..MaxId

\* One worker process (uvicorn's default): requests are served one at a time.
Main == "w1"

Bodies == {Body("A", 1, Null, Null), Body("A", 1, EmailA, Null),
           Body("A", 1, EmailB, Null), BadBody}

Updates == {<<>>, "email" :> EmailA, "email" :> EmailB, "email" :> Null,
            "salary" :> Some(0 - 1)}

BatchItems == {Body("A", 1, Null, Null), Body("A", 1, EmailA, Null), BadBody}

Batches == UNION {[1..n -> BatchItems] : n \in 0..MaxBatch}

FieldBodies == {Body("A", 1, EmailA, Some("eng")), Body("B", 2, Null, Null)}

FieldUpdates == {<<>>,
                 "salary" :> Some(2),
                 "salary" :> Some(0),
                 "name" :> Null,
                 ("name" :> Some("B")) @@ ("department" :> Some("")),
                 ("email" :> Null) @@ ("skills" :> Some(""))
                    @@ ("performance_rating" :> Null) @@ ("role" :> Some("y"))}

StatsBodies == {Body("A", 1, Null, Null), Body("A", 1, Null, Some("")),
                Body("A", 1, Null, Some("eng"))}

StatsUpdates == {"department" :> Null, "department" :> Some("")}

ClockUpdates == {<<>>, "salary" :> Some(1), "salary" :> Some(2)}

RaceBodies == {Body("A", 1, EmailA, Null)}

RaceUpdates == {"email" :> EmailA, "email" :> Null}

RaceBatches == {<<Body("A", 1, EmailA, Null)>>,
                <<Body("A", 1, Null, Null), Body("A", 1, EmailA, Null)>>}

\* ------------------------------------------------------------------ spec
Init ==
    /\ employees = NoRows
    /\ now = 0
    /\ pc = [w \in Workers |-> "idle"]
    /\ req = [w \in Workers |-> NoReq]
    /\ loaded = [w \in Workers |-> Null]
    /\ idx = [w \in Workers |-> 0]
    /\ created = [w \in Workers |-> <<>>]
    /\ errors = [w \in Workers |-> <<>>]
    /\ pending = [w \in Workers |-> NoRows]
    /\ active = [w \in Workers |-> TRUE]
    /\ resp = [w \in Workers |-> NoResp]
    /\ usedIds = {}

\* One worker, every operation, inputs that differ in their email.
Next ==
    \/ \E id \in Ids : get_employee(Main, id)
    \/ \E b \in Bodies : create_employee_check(Main, b)
    \/ create_employee_commit(Main)
    \/ \E id \in Ids, b \in Updates : update_employee_check(Main, id, b)
    \/ update_employee_commit(Main)
    \/ \E id \in Ids : delete_employee_check(Main, id)
    \/ delete_employee_commit(Main)
    \/ \E batch \in Batches : bulk_create_employees(Main, batch)
    \/ bulk_create_check(Main)
    \/ bulk_create_flush(Main)
    \/ bulk_create_commit(Main)
    \/ get_employee_stats(Main)

Spec == Init /\ [][Next]_vars

\* One worker, creates and partial updates over every payload field.
NextFields ==
    \/ \E id \in Ids : get_employee(Main, id)
    \/ \E b \in FieldBodies : create_employee_check(Main, b)
    \/ create_employee_commit(Main)
    \/ \E id \in Ids, b \in FieldUpdates : update_employee_check(Main, id, b)
    \/ update_employee_commit(Main)

SpecFields == Init /\ [][NextFields]_vars

\* One worker, stores that differ in their departments, and the summary.
NextStats ==
    \/ \E b \in StatsBodies : create_employee_check(Main, b)
    \/ create_employee_commit(Main)
    \/ \E id \in Ids, b \in StatsUpdates : update_employee_check(Main, id, b)
    \/ update_employee_commit(Main)
    \/ \E id \in Ids : delete_employee_check(Main, id)
    \/ delete_employee_commit(Main)
    \/ get_employee_stats(Main)

SpecStats == Init /\ [][NextStats]_vars

\* One worker, creates and updates while the clock advances.
NextClock ==
    \/ Tick
    \/ \E b \in {Body("A", 1, Null, Null)} : create_employee_check(Main, b)
    \/ create_employee_commit(Main)
    \/ \E id \in Ids, b \in ClockUpdates : update_employee_check(Main, id, b)
    \/ update_employee_commit(Main)

SpecClock == Init /\ [][NextClock]_vars

\* Two workers whose writes interleave, all competing for one email.
NextRace ==
    \E w \in Workers :
        \/ \E b \in RaceBodies : create_employee_check(w, b)
        \/ create_employee_commit(w)
        \/ \E id \in Ids, b \in RaceUpdates : update_employee_check(w, id, b)
        \/ update_employee_commit(w)
        \/ \E id \in Ids : delete_employee_check(w, id)
        \/ delete_employee_commit(w)
        \/ \E batch \in RaceBatches : bulk_create_employees(w, batch)
        \/ bulk_create_check(w)
        \/ bulk_create_flush(w)
        \/ bulk_create_commit(w)

SpecRace == Init /\ [][NextRace]_vars

\* ---------------------------------------------------------------- claims
\* Worker w takes this step (a repeated identical rejected request changes
\* nothing and is a stuttering step).
Acts(w) == pc'[w] # pc[w] \/ req'[w] # req[w] \/ resp'[w] # resp[w]

\* Worker w receives a request of kind op in this step.
Receives(w, op) == Acts(w) /\ pc[w] = "idle" /\ req'[w].op = op

\* Worker w finishes the write of its request of kind op in this step.
Writes(w, op) == pc[w] = op \o "_write" /\ pc'[w] = "idle"

EmailsOf(rows) == {rows[i].email : i \in DOMAIN rows} \ {Null}

\* C1: in every reachable state of the store, whatever the interleaving of
\* create, update, bulk create and delete requests of two workers (both may
\* pass the email check before either writes), no two distinct records hold
\* the same non-null email.
C1_EmailUnique ==
    \A i, j \in DOMAIN employees :
        (i # j /\ employees[i].email # Null)
            => employees[i].email # employees[j].email

\* Two writers passed the check for the same email; one stored it and the
\* other's INSERT or UPDATE was refused by the index.
C1_Witness ==
    \E w \in Workers :
        /\ resp[w] = ServerError("IntegrityError")
        /\ req[w].op = "create"
        /\ req[w].body.email \in EmailsOf(employees)

\* C2: a (valid) create request whose email is present and equal to the
\* email of a stored record is answered 400 "Email already registered", and
\* the store is exactly as it was.
C2_CreateDuplicate ==
    [][\A w \in Workers :
        (/\ Receives(w, "create")
         /\ ValidCreate(req'[w].body)
         /\ req'[w].body.email \in EmailsOf(employees))
        => /\ resp'[w] = HttpError(400, "Email already registered")
           /\ pc'[w] = "idle"
           /\ employees' = employees]_vars

C2_Witness ==
    /\ req[Main].op = "create"
    /\ resp[Main] = HttpError(400, "Email already registered")
    /\ req[Main].body.email \in EmailsOf(employees)

IsError(r, status, detail) ==
    r.status = status /\ r.kind = "error" /\ r.body.detail = detail

OthersUnchanged(id) ==
    /\ DOMAIN employees' = DOMAIN employees
    /\ \A j \in DOMAIN employees \ {id} : employees'[j] = employees[j]

\* C3: after every successful update(id, partial_fields), each payload field
\* absent from the request keeps its stored value, each supplied field
\* (an empty, zero or null value included) holds the supplied value, id and
\* created_at of the record are unchanged, and so is every other record.
C3_PartialUpdate ==
    [][\A w \in Workers :
        (Writes(w, "update") /\ resp'[w].status = 200)
        => LET id == req[w].id
               b == req[w].body
           IN  /\ \A f \in Fields \ DOMAIN b : employees'[id][f] = employees[id][f]
               /\ \A f \in DOMAIN b : employees'[id][f] = b[f]
               /\ employees'[id].id = employees[id].id
               /\ employees'[id].created_at = employees[id].created_at
               /\ resp'[w].body = employees'[id]
               /\ OthersUnchanged(id)]_vars

\* A salary-only update to zero has been applied to one of two records; its
\* other fields are still those it was created with.
C3_Witness ==
    /\ req[Main].op = "update"
    /\ req[Main].body = ("salary" :> Some(0))
    /\ resp[Main].status = 200
    /\ Cardinality(DOMAIN employees) = 2
    /\ employees[req[Main].id].salary = Some(0)
    /\ employees[req[Main].id].email = EmailA
    /\ employees[req[Main].id].department = Some("eng")

\* C4: a (valid) update(id, partial_fields) is answered 404 when no record has the id,
\* and 400 "Email already registered" exactly when the payload's email is
\* present, differs from the record's stored email and is the email of
\* another record; in both cases the store is unchanged.  An update that
\* supplies the record's own email, or none, is never answered 400.
C4_UpdateErrors ==
    [][\A w \in Workers :
        /\ (Receives(w, "update") /\ ValidUpdate(req'[w].body))
           => LET id == req'[w].id
                  b == req'[w].body
              IN  /\ id \notin DOMAIN employees
                       => IsError(resp'[w], 404, "Employee not found")
                  /\ id \in DOMAIN employees
                       => (IsError(resp'[w], 400, "Email already registered")
                           <=> /\ "email" \in DOMAIN b
                               /\ b["email"] # Null
                               /\ b["email"] # employees[id].email
                               /\ \E j \in DOMAIN employees \ {id} :
                                     employees[j].email = b["email"])
                  /\ resp'[w].status \in {400, 404}
                       => (employees' = employees /\ pc'[w] = "idle")
        /\ Writes(w, "update") => resp'[w].status \notin {400, 404}]_vars

\* An update was refused because another record holds the email.
C4_Witness ==
    /\ req[Main].op = "update"
    /\ IsError(resp[Main], 400, "Email already registered")
    /\ req[Main].id \in DOMAIN employees
    /\ employees[req[Main].id].email \notin {Null, req[Main].body["email"]}

\* C6: delete(id) on an id no record has is answered 404 and leaves the
\* store unchanged; delete(id) on an existing id removes exactly that record
\* and no other, and the get(id) issued next is answered 404.
C6_Delete ==
    [][\A w \in Workers :
        /\ Receives(w, "delete")
           => IF req'[w].id \in DOMAIN employees
                THEN pc'[w] = "delete_write" /\ employees' = employees
                ELSE /\ IsError(resp'[w], 404, "Employee not found")
                     /\ pc'[w] = "idle"
                     /\ employees' = employees
        /\ Writes(w, "delete")
           => /\ resp'[w].status = 200
              /\ DOMAIN employees' = DOMAIN employees \ {req[w].id}
              /\ \A j \in DOMAIN employees' : employees'[j] = employees[j]
              /\ IsError(GetResponse(employees', req[w].id), 404, "Employee not found")
        /\ (/\ Receives(w, "get")
            /\ req[w].op = "delete" /\ resp[w].status = 200
            /\ req'[w].id = req[w].id)
           => IsError(resp'[w], 404, "Employee not found")]_vars

\* A record was deleted while another one stays in the store.
C6_Witness ==
    /\ req[Main].op = "delete"
    /\ resp[Main].status = 200
    /\ req[Main].id \notin DOMAIN employees
    /\ employees # NoRows

Range(q) == {q[k] : k \in 1..Len(q)}

\* C5 (as claimed): the id given to a record by a successful create or by a
\* bulk create entry is the id of no record in the store and was never handed
\* out before, deleted records included.
C5_IdNeverReused ==
    [][\A w \in Workers :
        /\ (Writes(w, "create") /\ resp'[w].status = 201)
           => resp'[w].body.id \notin DOMAIN employees \cup usedIds
        /\ (pc[w] = "bulk_flush" /\ Len(created'[w]) > Len(created[w]))
           => created'[w][Len(created'[w])] \notin DOMAIN Visible(w) \cup usedIds]_vars

\* C7: in a bulk create, when several entries of the batch carry the same
\* email and no stored record has it, the first of them is created and each
\* later one is skipped with "Email already exists" recorded at its index;
\* a two-entry batch yields created = 1 and exactly one error, at index 1.
C7_BatchDuplicate ==
    [][\A w \in Workers :
        (pc[w] = "bulk_commit" /\ resp'[w].status = 200)
        => LET batch == req[w].batch
               r == resp'[w].body
           IN  \A i \in 1..Len(batch) :
                 LET e == batch[i].email
                     later == {j \in (i + 1)..Len(batch) : batch[j].email = e}
                 IN  (/\ Truthy(e)
                      /\ e \notin EmailsOf(employees)
                      /\ \A k \in 1..(i - 1) : batch[k].email # e
                      /\ later # {})
                     => /\ \E id \in Range(r.employee_ids) \ DOMAIN employees :
                              employees'[id].email = e
                        /\ \A x \in Range(r.errors) : x.index # i - 1
                        /\ \A j \in later : DuplicateError(j, e) \in Range(r.errors)
                        /\ Len(batch) = 2
                             => /\ r.created = 1
                                /\ Len(r.employee_ids) = 1
                                /\ r.errors = <<DuplicateError(2, e)>>]_vars

\* The batch of the example: [{email a}, {email a}] on a store without a.
C7_Witness ==
    /\ req[Main].op = "bulk"
    /\ Len(req[Main].batch) = 2
    /\ req[Main].batch[1].email = EmailA /\ req[Main].batch[2].email = EmailA
    /\ resp[Main].status = 200
    /\ resp[Main].body.created = 1
    /\ resp[Main].body.errors = <<DuplicateError(2, EmailA)>>

\* C8 (as claimed): a bulk create never aborts as a whole: every finished
\* bulk request is answered with a result in which every input index is
\* accounted for once, as a new id or as an error, and created is the number
\* of ids returned.
C8_BulkNeverAborts ==
    \A w \in Workers :
        (req[w].op = "bulk" /\ pc[w] = "idle")
        => /\ resp[w].status = 200
           /\ resp[w].kind = "bulk"
           /\ resp[w].body.created = Len(resp[w].body.employee_ids)
           /\ Len(resp[w].body.employee_ids) + Len(resp[w].body.errors)
                 = Len(req[w].batch)

RECURSIVE SumCounts(_)
SumCounts(q) == IF q = <<>> THEN 0 ELSE q[1].count + SumCounts(Tail(q))

DepartmentValues(rows) == {rows[i].department : i \in DOMAIN rows}

UpdatedBy(w, id) ==
    Writes(w, "update") /\ resp'[w].status = 200 /\ req[w].id = id

====
